---- MODULE Spec2Model ----
(***************************************************************************)
(* A model of the role bot: the durable store (persistent.rs, main.rs),    *)
(* the selector parser and the reaction handlers (reaction_roles.rs,       *)
(* reaction_roles/selector.rs) and the persisted-role tracker              *)
(* (persistent_roles.rs).                                                  *)
(*                                                                         *)
(* Strings are sequences of characters; a character is a one-element TLA+  *)
(* string.  "R", "B" and "S" stand for three pictographs (four bytes each  *)
(* in UTF-8), "#" is the ASCII character that carries the Unicode Emoji    *)
(* property without being a digit.  Option<T> is a sequence of length at   *)
(* most one: None is << >>, Some(v) is <<v>>.                              *)
(***************************************************************************)
EXTENDS Integers, Sequences, FiniteSets, TLC

VARIABLES
    text,            \* parser: the message text handed to the parser
    parsedGroup,     \* parser: Option of the result of parse_group(text)
    parsedSelector   \* parser: Option of the result of Selector::parse(text)

VARIABLES
    messages,        \* registry: the Messages map, MessageId -> Group, in memory
    regFile,         \* registry: Option of the JSON document in reaction_roles.json
    content,         \* platform: per message, Option of its text (None: deleted)
    reactions,       \* platform: per message, the set of <<user, emoji>> reactions
    memberRoles,     \* platform: per user, the roles the member holds
    last             \* what the last handler did: its event, its platform calls,
                     \* its file operations and what it saw before it ran

VARIABLES
    state,           \* persisted roles: the State in memory (guilds)
    stateFile,       \* persisted roles: Option of the content of the state file
    wpc,             \* persisted roles: where Persistent::write stands
    members,         \* platform: the users that are members of the guild
    held,            \* platform: per user, the roles the member holds
    lastP            \* what the last persisted-role operation did

VARIABLES
    lock,            \* tasks: who holds the RwLock of ctx.data (writer, readers)
    pc,              \* tasks: per handler task, the await it stands at
    local            \* tasks: per handler task, its arguments and locals

parseVars == <<text, parsedGroup, parsedSelector>>
reactVars == <<messages, regFile, content, reactions, memberRoles, last>>
rolesVars == <<state, stateFile, wpc, members, held, lastP>>
taskVars == <<lock, pc, local>>
vars == <<parseVars, reactVars, rolesVars, taskVars>>

None == << >>
Some(v) == <<v>>

(***************************************************************************)
(* Characters and strings                                                  *)
(***************************************************************************)
NL == "\n"
CR == "\r"

DigitChars == {"0", "1", "2"}
PictoChars == {"R", "B", "S"}

\* \p{Digit}
IsDigit(c) == c \in DigitChars
\* \p{Emoji}: pictographs, and also the ASCII digits, '#' and '*'
IsEmojiProperty(c) == c \in PictoChars \cup DigitChars \cup {"#", "*"}

\* bytes of one character in UTF-8 (str::len counts bytes)
Utf8Len(c) == IF c \in PictoChars THEN 4 ELSE 1

RECURSIVE ByteLen(_)
ByteLen(s) == IF s = << >> THEN 0 ELSE Utf8Len(Head(s)) + ByteLen(Tail(s))

StartsWith(s, p) == Len(s) >= Len(p) /\ SubSeq(s, 1, Len(p)) = p
EndsWith(s, c) == s # << >> /\ s[Len(s)] = c

DigitVal(c) == CASE c = "0" -> 0 [] c = "1" -> 1 [] c = "2" -> 2

\* str::parse::<u64>: a non-empty run of digits (the strings of the model are
\* far too short to overflow 64 bits)
RECURSIVE DigitsValue(_, _)
DigitsValue(s, acc) ==
    IF s = << >> THEN acc ELSE DigitsValue(Tail(s), acc * 10 + DigitVal(Head(s)))

ParseU64(s) ==
    IF s # << >> /\ \A i \in 1..Len(s) : IsDigit(s[i])
    THEN Some(DigitsValue(s, 0))
    ELSE None

\* format!("{}", n) of an unsigned number
RECURSIVE FormatU64(_)
FormatU64(n) ==
    LET d == CASE n % 10 = 0 -> "0" [] n % 10 = 1 -> "1" [] n % 10 = 2 -> "2"
                  [] OTHER -> "?"
    IN IF n < 10 THEN <<d>> ELSE FormatU64(n \div 10) \o <<d>>

\* the first position >= i holding character c, or 0
RECURSIVE IndexFrom(_, _, _)
IndexFrom(s, c, i) ==
    IF i > Len(s) THEN 0
    ELSE IF s[i] = c THEN i
    ELSE IndexFrom(s, c, i + 1)

\* str::lines: split at "\n", drop one trailing "\r" of each line, and no
\* final empty line
StripCR(l) == IF EndsWith(l, CR) THEN SubSeq(l, 1, Len(l) - 1) ELSE l

RECURSIVE Lines(_)
Lines(s) ==
    IF s = << >> THEN << >>
    ELSE LET j == IndexFrom(s, NL, 1)
         IN IF j = 0 THEN <<StripCR(s)>>
            ELSE <<StripCR(SubSeq(s, 1, j - 1))>> \o Lines(SubSeq(s, j + 1, Len(s)))

(***************************************************************************)
(* serenity: ReactionType, parse_role, parse_emoji                         *)
(***************************************************************************)
Custom(id, name) == [kind |-> "Custom", id |-> id, name |-> name, uni |-> << >>]
Unicode(s) == [kind |-> "Unicode", id |-> 0, name |-> None, uni |-> s]

\* serenity::utils::parse_role
parse_role(mention) ==
    IF ByteLen(mention) < 4 THEN None
    ELSE IF StartsWith(mention, <<"<", "@", "&">>) /\ EndsWith(mention, ">")
         THEN ParseU64(SubSeq(mention, 4, Len(mention) - 1))
         ELSE None

\* serenity::utils::parse_emoji, for the not animated form the patterns of
\* this program can match ("<:name:id>"): the name runs to the first ':',
\* the id from there to the first '>'
parse_emoji(mention) ==
    IF ByteLen(mention) < 6 \/ ByteLen(mention) > 56 THEN None
    ELSE IF StartsWith(mention, <<"<", ":">>) /\ EndsWith(mention, ">")
         THEN LET c == IndexFrom(mention, ":", 3)
                  name == IF c = 0 THEN SubSeq(mention, 3, Len(mention))
                          ELSE SubSeq(mention, 3, c - 1)
                  e == IF c = 0 THEN 0 ELSE IndexFrom(mention, ">", c + 1)
                  id == IF c = 0 THEN << >>
                        ELSE IF e = 0 THEN SubSeq(mention, c + 1, Len(mention))
                        ELSE SubSeq(mention, c + 1, e - 1)
                  n == ParseU64(id)
              IN IF n = None THEN None ELSE Some([id |-> n[1], name |-> name])
         ELSE None

(***************************************************************************)
(* Emoji(String)                                                           *)
(***************************************************************************)
\* impl From<ReactionType> for Emoji
EmojiFrom(reaction) ==
    IF reaction.kind = "Custom"
    THEN IF reaction.name # None
         THEN <<"<", ":">> \o reaction.name[1] \o <<":">> \o FormatU64(reaction.id) \o <<">">>
         ELSE <<"<", ":">> \o FormatU64(reaction.id) \o <<">">>
    ELSE reaction.uni

\* impl Into<ReactionType> for Emoji
EmojiInto(emoji) ==
    LET custom == parse_emoji(emoji)
    IN IF custom # None THEN Custom(custom[1].id, Some(custom[1].name))
       ELSE Unicode(emoji)

(***************************************************************************)
(* The selector grammar                                                    *)
(***************************************************************************)
\* Regex::find_iter for a pattern  prefix [^>]* '>' : the leftmost matches,
\* not overlapping, as substrings of the line
RECURSIVE FindDelimited(_, _, _)
FindDelimited(line, prefix, i) ==
    IF i + Len(prefix) - 1 > Len(line) THEN << >>
    ELSE IF SubSeq(line, i, i + Len(prefix) - 1) = prefix
         THEN LET j == IndexFrom(line, ">", i + Len(prefix))
              IN IF j = 0 THEN << >>
                 ELSE <<SubSeq(line, i, j)>> \o FindDelimited(line, prefix, j + 1)
         ELSE FindDelimited(line, prefix, i + 1)

\* role_pattern  <@&([^>]*)>
role_pattern(line) == FindDelimited(line, <<"<", "@", "&">>, 1)
\* custom_emoji_pattern  <:([^>]*>)
custom_emoji_pattern(line) == FindDelimited(line, <<"<", ":">>, 1)
\* unicode_emoji_pattern  [\p{Emoji}--\p{Digit}]
unicode_emoji_pattern(line) ==
    LET hit(c) == IsEmojiProperty(c) /\ ~IsDigit(c)
        RECURSIVE walk(_)
        walk(i) == IF i > Len(line) THEN << >>
                   ELSE IF hit(line[i]) THEN <<(<<line[i]>>)>> \o walk(i + 1)
                   ELSE walk(i + 1)
    IN walk(1)

\* Iterator::filter_map with an Option-valued function
RECURSIVE FilterMap(_, _)
FilterMap(f(_), s) ==
    IF s = << >> THEN << >>
    ELSE LET r == f(Head(s))
         IN (IF r = None THEN << >> ELSE <<r[1]>>) \o FilterMap(f, Tail(s))

\* the role ids of a line, in order
LineRoles(line) == FilterMap(parse_role, role_pattern(line))

\* the custom emoji of a line, in order
LineCustomEmoji(line) ==
    LET ids == FilterMap(parse_emoji, custom_emoji_pattern(line))
    IN [k \in 1..Len(ids) |-> EmojiFrom(Custom(ids[k].id, Some(ids[k].name)))]

\* the unicode emoji of a line, in order
LineUnicodeEmoji(line) ==
    LET found == unicode_emoji_pattern(line)
    IN [k \in 1..Len(found) |-> EmojiFrom(Unicode(found[k]))]

\* custom_emoji.chain(unicode_emoji)
EmojiChainUnicodeFirst(line) == LineUnicodeEmoji(line) \o LineCustomEmoji(line)

EmojiChain(line) == LineCustomEmoji(line) \o LineUnicodeEmoji(line)

\* the pair a line contributes: (roles.next(), emoji.next())
LinePair(line) ==
    LET roles == LineRoles(line)
        emoji == EmojiChain(line)
    IN IF roles # << >> /\ emoji # << >>
       THEN Some([emoji |-> Head(emoji), role |-> Head(roles)])
       ELSE None

\* parse_group: the pairs of the lines, in line order
parse_group(source) == FilterMap(LinePair, Lines(source))

\* HashMap::insert of each pair in turn
RECURSIVE InsertAll(_, _)
InsertAll(map, pairs) ==
    IF pairs = << >> THEN map
    ELSE LET p == Head(pairs)
         IN InsertAll([e \in DOMAIN map \cup {p.emoji} |->
                          IF e = p.emoji THEN p.role ELSE map[e]], Tail(pairs))

EmptyMap == [e \in {} |-> 0]

\* Selector::parse
SelectorParse(source) == InsertAll(EmptyMap, parse_group(source))

(***************************************************************************)
(* The parser run on sample texts                                          *)
(***************************************************************************)
MaxLines == 2

\* "<@&1> R"
LineRoleUnicode == <<"<", "@", "&", "1", ">", " ", "R">>
\* "<@&2> <:a:1>"
LineRoleCustom == <<"<", "@", "&", "2", ">", " ", "<", ":", "a", ":", "1", ">">>
\* "R <:a:1> <@&1> <@&2> B": unicode before custom, two roles, extra tokens
LineEverything ==
    <<"R", " ", "<", ":", "a", ":", "1", ">", " ", "<", "@", "&", "1", ">", " ",
      "<", "@", "&", "2", ">", " ", "B">>
\* "<@&1>"
LineOnlyRole == <<"<", "@", "&", "1", ">">>
\* "B hi"
LineOnlyEmoji == <<"B", " ", "h", "i">>
\* "<@&x> R": a role reference that is no number
LineBadRole == <<"<", "@", "&", "x", ">", " ", "R">>
\* "<@&2> 1": a role and a bare digit
LineRoleDigit == <<"<", "@", "&", "2", ">", " ", "1">>
\* "<@&x><@&2> <:b> S": a bad role before a good one, a bad custom emoji
LineBadTokens ==
    <<"<", "@", "&", "x", ">", "<", "@", "&", "2", ">", " ", "<", ":", "b", ">", " ", "S">>
\* "<@&2> R": the emoji of LineRoleUnicode with another role
LineSameEmoji == <<"<", "@", "&", "2", ">", " ", "R">>
\* "<@&1> <:b:1>": the custom emoji of LineRoleCustom under another name
LineRenamed == <<"<", "@", "&", "1", ">", " ", "<", ":", "b", ":", "1", ">">>
\* "<@&1> B\r"
LineCarriageReturn == <<"<", "@", "&", "1", ">", " ", "B", CR>>

SampleLines ==
    {LineRoleUnicode, LineRoleCustom, LineEverything, LineOnlyRole, LineOnlyEmoji,
     LineBadRole, LineRoleDigit, LineBadTokens, LineSameEmoji, LineRenamed,
     LineCarriageReturn, << >>}

\* the lines joined by "\n"
RECURSIVE Join(_)
Join(ls) ==
    IF ls = << >> THEN << >>
    ELSE IF Len(ls) = 1 THEN ls[1]
    ELSE ls[1] \o <<NL>> \o Join(Tail(ls))

SampleTexts ==
    {Join(ls) : ls \in UNION {[1..n -> SampleLines] : n \in 0..MaxLines}}

(***************************************************************************)
(* The platform, as the handlers see it                                    *)
(***************************************************************************)
MessageIds == {1, 2}
RoleIds == {1, 2}

Me == "me"
Users == {Me, "alice", "bot2"}
\* member.user.bot
Bots == {Me, "bot2"}

\* the emoji that exist on the platform, as it reports them in a reaction
PlatformEmoji == {Unicode(<<"R">>), Custom(1, Some(<<"a">>))}

\* the emoji of the platform a ReactionType sent to it denotes: a custom emoji
\* by its id, a unicode emoji by its text; none when there is no such emoji
Resolve(rt) ==
    IF rt.kind = "Custom"
    THEN {pe \in PlatformEmoji : pe.kind = "Custom" /\ pe.id = rt.id}
    ELSE {pe \in PlatformEmoji : pe.kind = "Unicode" /\ pe.uni = rt.uni}

\* "<@&1> R\n<@&2> <:a:1>"
TextBoth == Join(<<LineRoleUnicode, LineRoleCustom>>)
\* "<@&2> R"
TextOther == LineSameEmoji
\* "<@&1> <:b:1>"
TextRenamed == LineRenamed
\* "B hi" names no role
TextNothing == <<"h", "i">>

MessageTexts == {TextBoth, TextOther, TextRenamed, TextNothing}

NoEmoji == Unicode(<< >>)
Call(api, user, role, emoji, ok) ==
    [api |-> api, user |-> user, role |-> role, emoji |-> emoji, ok |-> ok]

(***************************************************************************)
(* Messages and Group (reaction_roles.rs)                                  *)
(***************************************************************************)
get_group(msgs, message) ==
    IF message \in DOMAIN msgs THEN Some(msgs[message]) ELSE None

contains_group(msgs, message) == message \in DOMAIN msgs

get_role(group, emoji) ==
    IF emoji \in DOMAIN group THEN Some(group[emoji]) ELSE None

remove_groupClearsAll(msgs, message) == [k \in {} |-> EmptyMap]

remove_group(msgs, message) ==
    [k \in DOMAIN msgs \ {message} |-> msgs[k]]

get_or_create_group(msgs, message) ==
    IF message \in DOMAIN msgs THEN msgs
    ELSE [k \in DOMAIN msgs \cup {message} |->
             IF k = message THEN EmptyMap ELSE msgs[k]]

SetGroup(msgs, message, group) ==
    [k \in DOMAIN msgs |-> IF k = message THEN group ELSE msgs[k]]

(***************************************************************************)
(* The store of main.rs: Persistent<Messages>                              *)
(***************************************************************************)
\* serde_json::to_vec of Messages: an object keyed by the message id in
\* decimal, each value an object from the emoji string to the role id
SerializeMessages(msgs) ==
    LET key(m) == FormatU64(m)
    IN [k \in {key(m) : m \in DOMAIN msgs} |->
           msgs[CHOOSE m \in DOMAIN msgs : key(m) = k]]

\* serde_json::from_slice to Messages
DeserializeMessages(doc) ==
    LET ids == {ParseU64(k)[1] : k \in DOMAIN doc}
    IN [m \in ids |-> doc[CHOOSE k \in DOMAIN doc : ParseU64(k) = Some(m)]]

\* Persistent::write of main.rs, after f turned the value into `after`:
\* File::create and write_all of the whole document, whatever f did
MainWriteFileOps == <<"create", "write_all">>
MainWriteFile(after) == Some(SerializeMessages(after))

(***************************************************************************)
(* apply_group_reactions                                                   *)
(***************************************************************************)
OwnReactions(message) == {pe \in PlatformEmoji : <<Me, pe>> \in reactions[message]}

\* the bot's reactions that the reconciler deletes: target_message.reactions
\* filtered by reaction.me
ReconcileDeletesNone(msgs, message) == {}

ReconcileDeletes(msgs, message) == OwnReactions(message)

\* the selector keys the reconciler reacts with: group.iter()
ReconcileAddsNone(msgs, message) == {}

ReconcileAdds(msgs, message) == DOMAIN msgs[message]

\* msgs is the registry the reconciler reads; fetchOk, okDel and okAdd are the
\* outcomes of channel.message, of each delete_reaction and of each react
apply_group_reactions(msgs, message, fetchOk, okDel, okAdd) ==
    IF get_group(msgs, message) = None
    THEN [calls |-> {}, reactions |-> reactions[message], ran |-> FALSE]
    ELSE IF ~fetchOk
    THEN [calls |-> {Call("message", Me, 0, NoEmoji, FALSE)},
          reactions |-> reactions[message], ran |-> FALSE]
    ELSE LET dels == ReconcileDeletes(msgs, message)
             adds == ReconcileAdds(msgs, message)
             sent(k) == EmojiInto(k)
             added == UNION {Resolve(sent(k)) : k \in adds \cap okAdd}
         IN [calls |->
                {Call("message", Me, 0, NoEmoji, TRUE)}
                \cup {Call("delete_reaction", Me, 0, pe, pe \in okDel) : pe \in dels}
                \cup {Call("react", Me, 0, sent(k),
                           k \in okAdd /\ Resolve(sent(k)) # {}) : k \in adds},
             reactions |->
                (reactions[message] \ {<<Me, pe>> : pe \in dels \cap okDel})
                \cup {<<Me, pe>> : pe \in added},
             ran |-> TRUE]

(***************************************************************************)
(* The handlers of reaction_roles.rs                                       *)
(***************************************************************************)
NoWrite == [called |-> FALSE, same |-> TRUE, ops |-> << >>]

\* what becomes of a handler whose platform call failed: add_reaction and
\* remove_reaction return the Err and Handler::reaction_add / reaction_remove
\* log it (`if let Err(err) = ... { error!(..) }`); the reconciler drops it
\* (`let _ =`); nothing unwraps it
HandlerResultUnwrapped(calls) ==
    IF \A c \in calls : c.ok THEN "Ok" ELSE "panic"

HandlerResult(calls) ==
    IF \A c \in calls : c.ok THEN "Ok" ELSE "logged"

Record(op, message, user, emoji, calls, write, ran, registered) ==
    [op |-> op, message |-> message, user |-> user, emoji |-> emoji,
     calls |-> calls, result |-> HandlerResult(calls),
     write |-> write, reconciled |-> ran,
     registered |-> registered,
     ownBefore |-> OwnReactions(message),
     seenBefore |-> {r[2] : r \in reactions[message]},
     rolesBefore |-> IF user \in Users THEN memberRoles[user] ELSE {}]

\* every way apply_group_reactions can go: the fetch of the message fails, or
\* it succeeds and each delete_reaction and each react succeeds or fails
Reconciliations(msgs, message) ==
    IF get_group(msgs, message) = None
    THEN {apply_group_reactions(msgs, message, TRUE, {}, {})}
    ELSE {apply_group_reactions(msgs, message, FALSE, {}, {})}
         \cup {apply_group_reactions(msgs, message, TRUE, okDel, okAdd) :
                  okDel \in SUBSET ReconcileDeletes(msgs, message),
                  okAdd \in SUBSET ReconcileAdds(msgs, message)}

\* parse_group of the texts a message can have, tabulated
ParsedText == [t \in MessageTexts |-> parse_group(t)]

\* if !member.user.bot
GrantsToAnyone(user) == TRUE

GrantsTo(user) == user \notin Bots

\* None => reaction.delete(&ctx.http): the call add_reaction makes for an emoji
\* that is no key of the group
UnmappedIgnored(user, pe, ok) == {}

Unmapped(user, pe, ok) == {Call("reaction.delete", user, 0, pe, ok)}

\* if let Some(role) = group.get_role(&emoji): the role remove_reaction revokes
RevokedRoleAny(group, emoji) ==
    IF group = None THEN None
    ELSE IF DOMAIN group[1] = {} THEN None
    ELSE Some(group[1][CHOOSE e \in DOMAIN group[1] : TRUE])

RevokedRole(group, emoji) ==
    IF group = None THEN None ELSE get_role(group[1], emoji)

\* a user puts a reaction on a message and the reaction-added event is handled
add_reaction(message, user, pe) ==
    /\ content[message] # None
    /\ user # Me
    /\ <<user, pe>> \notin reactions[message]
    /\ LET group == get_group(messages, message)
           emoji == EmojiFrom(pe)
           role == IF group = None THEN None ELSE get_role(group[1], emoji)
           placed == reactions[message] \cup {<<user, pe>>}
           done(calls) ==
               last' = Record("add_reaction", message, user, pe, calls, NoWrite,
                              FALSE, group # None)
       IN IF group = None
          THEN /\ reactions' = [reactions EXCEPT ![message] = placed]
               /\ UNCHANGED memberRoles
               /\ done({})
          ELSE IF role # None
          THEN \E fetchOk \in BOOLEAN :
                  IF fetchOk /\ GrantsTo(user)
                  THEN \E callOk \in BOOLEAN :
                          /\ reactions' = [reactions EXCEPT ![message] = placed]
                          /\ memberRoles' =
                                [memberRoles EXCEPT ![user] =
                                    IF callOk THEN @ \cup {role[1]} ELSE @]
                          /\ done({Call("member", user, 0, NoEmoji, TRUE),
                                   Call("add_role", user, role[1], NoEmoji, callOk)})
                  ELSE /\ reactions' = [reactions EXCEPT ![message] = placed]
                       /\ UNCHANGED memberRoles
                       /\ done({Call("member", user, 0, NoEmoji, fetchOk)})
          ELSE \E callOk \in BOOLEAN :
                  LET calls == Unmapped(user, pe, callOk)
                      deleted == \E c \in calls : c.api = "reaction.delete" /\ c.ok
                  IN /\ reactions' = [reactions EXCEPT ![message] =
                                         IF deleted THEN placed \ {<<user, pe>>}
                                         ELSE placed]
                     /\ UNCHANGED memberRoles
                     /\ done(calls)
    /\ UNCHANGED <<messages, regFile, content>>

\* a user takes a reaction off a message and the reaction-removed event is
\* handled
remove_reaction(message, user, pe) ==
    /\ content[message] # None
    /\ user # Me
    /\ <<user, pe>> \in reactions[message]
    /\ reactions' = [reactions EXCEPT ![message] = @ \ {<<user, pe>>}]
    /\ LET group == get_group(messages, message)
           emoji == EmojiFrom(pe)
           role == RevokedRole(group, emoji)
           done(calls) ==
               last' = Record("remove_reaction", message, user, pe, calls, NoWrite,
                              FALSE, group # None)
       IN IF role = None
          THEN /\ UNCHANGED memberRoles
               /\ done({})
          ELSE \E fetchOk \in BOOLEAN :
                  IF fetchOk
                  THEN \E callOk \in BOOLEAN :
                          /\ memberRoles' =
                                [memberRoles EXCEPT ![user] =
                                    IF callOk THEN @ \ {role[1]} ELSE @]
                          /\ done({Call("member", user, 0, NoEmoji, TRUE),
                                   Call("remove_role", user, role[1], NoEmoji, callOk)})
                  ELSE /\ UNCHANGED memberRoles
                       /\ done({Call("member", user, 0, NoEmoji, FALSE)})
    /\ UNCHANGED <<messages, regFile, content>>

\* the message is deleted on the platform and the message-deleted event is
\* handled
delete_message(message) ==
    /\ content[message] # None
    /\ content' = [content EXCEPT ![message] = None]
    /\ reactions' = [reactions EXCEPT ![message] = {}]
    /\ IF ~contains_group(messages, message)
       THEN /\ UNCHANGED <<messages, regFile>>
            /\ last' = Record("delete_message", message, Me, NoEmoji, {}, NoWrite,
                              FALSE, FALSE)
       ELSE LET after == remove_group(messages, message)
            IN /\ messages' = after
               /\ regFile' = MainWriteFile(after)
               /\ last' = Record("delete_message", message, Me, NoEmoji, {},
                                 [called |-> TRUE, same |-> after = messages,
                                  ops |-> MainWriteFileOps], FALSE, TRUE)
    /\ UNCHANGED memberRoles

\* the closure update_message hands to write: clear the group and insert the
\* pairs of the new content
UpdateGroupKeepOld(msgs, message, new) ==
    IF get_group(msgs, message) = None THEN msgs
    ELSE SetGroup(msgs, message, InsertAll(msgs[message], ParsedText[new]))

UpdateGroupCreates(msgs, message, new) ==
    SetGroup(get_or_create_group(msgs, message), message,
             InsertAll(EmptyMap, ParsedText[new]))

UpdateGroup(msgs, message, new) ==
    IF get_group(msgs, message) = None THEN msgs
    ELSE SetGroup(msgs, message, InsertAll(EmptyMap, ParsedText[new]))

\* the message is edited on the platform and the message-update event is
\* handled; new is event.content
update_message(message, new) ==
    /\ content[message] # None
    /\ content' = [content EXCEPT ![message] = IF new = None THEN @ ELSE new]
    /\ UNCHANGED memberRoles
    /\ IF new = None \/ ~contains_group(messages, message)
       THEN /\ UNCHANGED <<messages, regFile, reactions>>
            /\ last' = Record("update_message", message, Me, NoEmoji, {}, NoWrite,
                              FALSE, FALSE)
       ELSE LET after == UpdateGroup(messages, message, new[1])
            IN \E rec \in Reconciliations(after, message) :
                  /\ messages' = after
                  /\ regFile' = MainWriteFile(after)
                  /\ reactions' = [reactions EXCEPT ![message] = rec.reactions]
                  /\ last' = Record("update_message", message, Me, NoEmoji, rec.calls,
                                    [called |-> TRUE, same |-> after = messages,
                                     ops |-> MainWriteFileOps], rec.ran, TRUE)

\* the closure track_reactions hands to write: get_or_create_group and insert
\* the pairs of the message's content
TrackGroup(msgs, message, source) ==
    LET had == get_or_create_group(msgs, message)
    IN SetGroup(had, message, InsertAll(had[message], ParsedText[source]))

\* the track command naming `message`; found is the outcome of fetching it
track_reactions(message) ==
    /\ UNCHANGED <<content, memberRoles>>
    /\ \E found \in {FALSE} \cup {content[message] # None} :
          IF ~found
          THEN /\ UNCHANGED <<messages, regFile, reactions>>
               /\ last' = Record("track_reactions", message, Me, NoEmoji,
                                 {Call("message", Me, 0, NoEmoji, FALSE),
                                  Call("reply", Me, 0, NoEmoji, TRUE)},
                                 NoWrite, FALSE, contains_group(messages, message))
          ELSE LET after == TrackGroup(messages, message, content[message][1])
               IN \E rec \in Reconciliations(after, message) :
                     /\ messages' = after
                     /\ regFile' = MainWriteFile(after)
                     /\ reactions' = [reactions EXCEPT ![message] = rec.reactions]
                     /\ last' = Record("track_reactions", message, Me, NoEmoji, rec.calls,
                                       [called |-> TRUE, same |-> after = messages,
                                        ops |-> MainWriteFileOps], rec.ran,
                                       contains_group(messages, message))

\* the message is edited while the connection to the gateway is down: the
\* platform has the new text and no message-update event is ever handled
edit_unseen(message, new) ==
    /\ content[message] # None
    /\ content[message] # Some(new)
    /\ content' = [content EXCEPT ![message] = Some(new)]
    /\ last' = Record("disconnected", message, Me, NoEmoji, {}, NoWrite, FALSE,
                      contains_group(messages, message))
    /\ UNCHANGED <<messages, regFile, reactions, memberRoles>>

NoEvent ==
    [op |-> "none", message |-> 1, user |-> Me, emoji |-> NoEmoji, calls |-> {},
     result |-> "Ok", write |-> NoWrite, reconciled |-> FALSE, registered |-> FALSE,
     ownBefore |-> {}, seenBefore |-> {}, rolesBefore |-> {}]

(***************************************************************************)
(* State and GuildState (persistent_roles.rs)                              *)
(***************************************************************************)
GuildIds == {1}
UserIds == {1, 2}

\* State::default()
DefaultState == [guilds |-> [g \in {} |-> 0]]
\* GuildState::default()
DefaultGuildState == [roles |-> {}, users |-> [u \in {} |-> << >>]]

\* HashMap::insert and HashMap::remove
MapInsert(map, key, value) ==
    [k \in DOMAIN map \cup {key} |-> IF k = key THEN value ELSE map[k]]
MapRemove(map, key) == [k \in DOMAIN map \ {key} |-> map[k]]

\* the elements of a set of numbers as a sequence, smallest first
RECURSIVE Ascending(_)
Ascending(set) ==
    IF set = {} THEN << >>
    ELSE LET least == CHOOSE x \in set : \A y \in set : x <= y
         IN <<least>> \o Ascending(set \ {least})

\* every order in which the elements of a set can be listed
Orders(set) ==
    {s \in [1..Cardinality(set) -> set] : \A i, j \in DOMAIN s : s[i] = s[j] => i = j}

Range(s) == {s[i] : i \in DOMAIN s}

\* GuildState::set_user_roles
GuildState_set_user_rolesInsertsEmpty(gs, user, roles) ==
    [gs EXCEPT !.users = MapInsert(gs.users, user, roles)]

GuildState_set_user_roles(gs, user, roles) ==
    IF roles # << >>
    THEN [gs EXCEPT !.users = MapInsert(gs.users, user, roles)]
    ELSE [gs EXCEPT !.users = MapRemove(gs.users, user)]

\* for user in users_with_role { self.users.entry(user).or_insert_with(Vec::new).push(role) }
PushRoleReplaces(users, role, users_with_role) ==
    [u \in DOMAIN users \cup Range(users_with_role) |->
        IF u \in Range(users_with_role) THEN <<role>> ELSE users[u]]

RECURSIVE PushRole(_, _, _)
PushRole(users, role, users_with_role) ==
    IF users_with_role = << >> THEN users
    ELSE LET user == Head(users_with_role)
             had == IF user \in DOMAIN users THEN users[user] ELSE << >>
         IN PushRole(MapInsert(users, user, Append(had, role)), role,
                     Tail(users_with_role))

\* GuildState::add_role
GuildState_add_role(gs, role, users_with_role) ==
    IF role \notin gs.roles
    THEN [roles |-> gs.roles \cup {role},
          users |-> PushRole(gs.users, role, users_with_role)]
    ELSE gs

\* roles.iter().position(|r| *r == role): the first index, 0 for None
Position(roles, role) ==
    IF \E i \in DOMAIN roles : roles[i] = role
    THEN CHOOSE i \in DOMAIN roles :
            roles[i] = role /\ \A j \in 1..(i - 1) : roles[j] # role
    ELSE 0

\* Vec::swap_remove: the last element takes the place of the removed one
SwapRemove(roles, index) ==
    SubSeq([roles EXCEPT ![index] = roles[Len(roles)]], 1, Len(roles) - 1)

\* the loop of remove_role over one user's list
StripRoleNot(roles, role) == roles

StripRole(roles, role) ==
    IF Position(roles, role) # 0 THEN SwapRemove(roles, Position(roles, role)) ELSE roles

\* GuildState::remove_role
GuildState_remove_role(gs, role) ==
    IF role \in gs.roles
    THEN LET stripped == [u \in DOMAIN gs.users |-> StripRole(gs.users[u], role)]
             empty_users == {u \in DOMAIN stripped : stripped[u] = << >>}
         IN [roles |-> gs.roles \ {role},
             users |-> [u \in DOMAIN stripped \ empty_users |-> stripped[u]]]
    ELSE gs

\* the closure add_role hands to write
AddRoleClosure(st, guild, role, users_with_role) ==
    LET had == IF guild \in DOMAIN st.guilds THEN st.guilds[guild]
               ELSE DefaultGuildState
    IN [guilds |-> MapInsert(st.guilds, guild,
                             GuildState_add_role(had, role, users_with_role))]

\* the closure remove_role hands to write
RemoveRoleClosure(st, guild, role) ==
    IF guild \in DOMAIN st.guilds
    THEN [guilds |-> MapInsert(st.guilds, guild,
                               GuildState_remove_role(st.guilds[guild], role))]
    ELSE st

\* member.roles.iter().filter(|role| guild.roles.contains(role))
TrackedOfAll(gs, roles) == roles

TrackedOf(gs, roles) == SelectSeq(roles, LAMBDA r : r \in gs.roles)

\* the closure guild_member_update hands to write
MemberUpdateClosure(st, guild, user, roles) ==
    IF guild \in DOMAIN st.guilds
    THEN [guilds |-> MapInsert(st.guilds, guild,
                               GuildState_set_user_roles(
                                   st.guilds[guild], user,
                                   TrackedOf(st.guilds[guild], roles)))]
    ELSE st

(***************************************************************************)
(* The store of persistent.rs: Persistent<State>                           *)
(***************************************************************************)
\* the documents serde_json::to_vec can produce for a State: objects keyed by
\* the ids in decimal, the tracked roles as an array in the order the HashSet
\* happens to iterate in
SerializeState(st) ==
    LET gids == DOMAIN st.guilds
        orderings ==
            {o \in [gids -> UNION {Orders(st.guilds[g].roles) : g \in gids}] :
                \A g \in gids : o[g] \in Orders(st.guilds[g].roles)}
        usersDoc(users) ==
            [k \in {FormatU64(u) : u \in DOMAIN users} |->
                users[CHOOSE u \in DOMAIN users : FormatU64(u) = k]]
        guildsDoc(o) ==
            [k \in {FormatU64(g) : g \in gids} |->
                LET g == CHOOSE x \in gids : FormatU64(x) = k
                IN [roles |-> o[g], users |-> usersDoc(st.guilds[g].users)]]
    IN {[guilds |-> guildsDoc(o)] : o \in orderings}

\* serde_json::from_slice of a whole document to a State
DeserializeState(doc) ==
    LET id(k) == ParseU64(k)[1]
        users(obj) == [u \in {id(k) : k \in DOMAIN obj} |->
                          obj[CHOOSE k \in DOMAIN obj : id(k) = u]]
    IN [guilds |->
           [g \in {id(k) : k \in DOMAIN doc.guilds} |->
               LET gd == doc.guilds[CHOOSE k \in DOMAIN doc.guilds : id(k) = g]
               IN [roles |-> Range(gd.roles), users |-> users(gd.users)]]]

\* the content of a file: all the bytes of a document, a proper prefix of
\* them, or no byte at all
NoJson == [guilds |-> [k \in {} |-> 0]]
AllBytes(doc) == [bytes |-> "all", json |-> doc]
SomeBytes(doc) == [bytes |-> "some", json |-> doc]
NoBytes == [bytes |-> "none", json |-> NoJson]

\* serde_json::from_slice(&bytes): Some(value), or None for an error; a
\* document cut short is no JSON
from_slice(file) ==
    IF file.bytes = "all" THEN Some(DeserializeState(file.json)) ELSE None

\* Persistent::open: Some(inner), or None when the expect on from_slice panics
OpenDefault(file) == Some(DefaultState)

Open(file) ==
    IF file # None THEN from_slice(file[1]) ELSE Some(DefaultState)

\* if previous == self.inner { return result; }
WriteReturnsEarlyNever(previous, inner) == FALSE

WriteReturnsEarly(previous, inner) == previous = inner

\* Persistent::write as one step, once f turned `previous` into `inner`: the
\* file contents it can leave
WriteResults(previous, inner, file) ==
    IF WriteReturnsEarly(previous, inner) THEN {file}
    ELSE {Some(AllBytes(doc)) : doc \in SerializeState(inner)}

WriteRecord(previous, inner) ==
    [called |-> TRUE, same |-> previous = inner,
     ops |-> IF WriteReturnsEarly(previous, inner) THEN << >>
             ELSE <<"create", "write_all">>]

(***************************************************************************)
(* The handlers of persistent_roles.rs, each as one step                   *)
(***************************************************************************)
RecordP(op, guild, user, role, result, calls, write) ==
    [op |-> op, guild |-> guild, user |-> user, role |-> role, result |-> result,
     calls |-> calls, write |-> write, before |-> state, heldBefore |-> held]

\* users_with_role: the members holding the role, as the paginated scan
\* lists them
users_with_role(role) == Ascending({u \in members : role \in held[u]})

\* the add_role command; scanOk is the outcome of the membership scan
add_role(guild, role) ==
    /\ wpc = "idle"
    /\ UNCHANGED <<members, held, wpc>>
    /\ IF guild = None
       THEN /\ UNCHANGED <<state, stateFile>>
            /\ lastP' = RecordP("add_role", 0, 0, role, "NotAllowed", {}, NoWrite)
       ELSE \E scanOk \in BOOLEAN :
               IF ~scanOk
               THEN /\ UNCHANGED <<state, stateFile>>
                    /\ lastP' = RecordP("add_role", guild[1], 0, role, "Serenity",
                                        {Call("members_iter", 0, 0, NoEmoji, FALSE)},
                                        NoWrite)
               ELSE LET inner == AddRoleClosure(state, guild[1], role,
                                                users_with_role(role))
                    IN /\ state' = inner
                       /\ stateFile' \in WriteResults(state, inner, stateFile)
                       /\ lastP' = RecordP("add_role", guild[1], 0, role, "Ok",
                                           {Call("members_iter", 0, 0, NoEmoji, TRUE)},
                                           WriteRecord(state, inner))

\* the remove_role command
remove_role(guild, role) ==
    /\ wpc = "idle"
    /\ UNCHANGED <<members, held, wpc>>
    /\ IF guild = None
       THEN /\ UNCHANGED <<state, stateFile>>
            /\ lastP' = RecordP("remove_role", 0, 0, role, "NotAllowed", {}, NoWrite)
       ELSE LET inner == RemoveRoleClosure(state, guild[1], role)
            IN /\ state' = inner
               /\ stateFile' \in WriteResults(state, inner, stateFile)
               /\ lastP' = RecordP("remove_role", guild[1], 0, role, "Ok", {},
                                   WriteRecord(state, inner))

\* has_guild
has_guild(guild) == guild \in DOMAIN state.guilds

\* the roles of a member change on the platform and the member-update event
\* is handled; roles is member.roles
guild_member_update(guild, user, roles) ==
    /\ wpc = "idle"
    /\ user \in members
    /\ held' = [held EXCEPT ![user] = Range(roles)]
    /\ UNCHANGED <<members, wpc>>
    /\ IF ~has_guild(guild)
       THEN /\ UNCHANGED <<state, stateFile>>
            /\ lastP' = RecordP("guild_member_update", guild, user, 0, "Ok", {}, NoWrite)
       ELSE LET inner == MemberUpdateClosure(state, guild, user, roles)
            IN /\ state' = inner
               /\ stateFile' \in WriteResults(state, inner, stateFile)
               /\ lastP' = RecordP("guild_member_update", guild, user, 0, "Ok", {},
                                   WriteRecord(state, inner))

\* a member leaves the guild; no handler of persistent_roles.rs runs
member_leaves(guild, user) ==
    /\ wpc = "idle"
    /\ user \in members
    /\ members' = members \ {user}
    /\ held' = [held EXCEPT ![user] = {}]
    /\ lastP' = RecordP("leave", guild, user, 0, "Ok", {}, NoWrite)
    /\ UNCHANGED <<state, stateFile, wpc>>

\* the snapshot guild_member_addition reads for the member
SnapshotOfTracked(st, guild, user) ==
    IF guild \in DOMAIN st.guilds
    THEN Ascending(st.guilds[guild].roles)
    ELSE << >>

Snapshot(st, guild, user) ==
    IF guild \in DOMAIN st.guilds /\ user \in DOMAIN st.guilds[guild].users
    THEN st.guilds[guild].users[user]
    ELSE << >>

\* a user joins the guild and the member-joined event is handled; manage is
\* permissions.manage_roles(), ok the outcome of member.add_roles
guild_member_addition(guild, user) ==
    /\ wpc = "idle"
    /\ user \notin members
    /\ members' = members \cup {user}
    /\ UNCHANGED <<state, stateFile, wpc>>
    /\ LET roles == Snapshot(state, guild, user)
       IN IF roles = << >>
          THEN /\ UNCHANGED held
               /\ lastP' = RecordP("guild_member_addition", guild, user, 0, "Ok", {},
                                   NoWrite)
          ELSE \E manage \in BOOLEAN :
                  IF ~manage
                  THEN /\ UNCHANGED held
                       /\ lastP' = RecordP("guild_member_addition", guild, user, 0,
                                           "NoPermission", {}, NoWrite)
                  ELSE \E ok \in BOOLEAN :
                          /\ held' = [held EXCEPT ![user] =
                                         IF ok THEN @ \cup Range(roles) ELSE @]
                          /\ lastP' = RecordP("guild_member_addition", guild, user, 0,
                                              "Ok",
                                              {[api |-> "add_roles", user |-> user,
                                                roles |-> roles, ok |-> ok]},
                                              NoWrite)

NoOperation ==
    [op |-> "none", guild |-> 0, user |-> 0, role |-> 0, result |-> "Ok",
     calls |-> {}, write |-> NoWrite, before |-> DefaultState,
     heldBefore |-> [u \in UserIds |-> {}]]

(***************************************************************************)
(* Persistent::write of persistent.rs, step by step                        *)
(***************************************************************************)
\* what f can be: the closures the handlers hand to write, on any input
Closures(st) ==
    {AddRoleClosure(st, g, r, Ascending(us)) :
        g \in GuildIds, r \in RoleIds, us \in SUBSET UserIds}
    \cup {RemoveRoleClosure(st, g, r) : g \in GuildIds, r \in RoleIds}
    \cup {MemberUpdateClosure(st, g, u, rs) :
             g \in GuildIds, u \in UserIds, rs \in UNION {Orders(x) : x \in SUBSET RoleIds}}

\* the bytes write_all is given: serde_json::to_vec(&self.inner)
WrittenPrevious(previous, inner) == SerializeState(previous)

Written(previous, inner) == SerializeState(inner)

\* write runs f and compares: lines 40 to 46
write_begin ==
    /\ wpc = "idle"
    /\ \E inner \in Closures(state) :
          /\ state' = inner
          /\ wpc' = IF WriteReturnsEarly(state, inner) THEN "idle" ELSE "create"
          /\ lastP' = RecordP("write", 0, 0, 0,
                              IF WriteReturnsEarly(state, inner) THEN "Ok" ELSE "running",
                              {}, [called |-> TRUE, same |-> state = inner, ops |-> << >>])
    /\ UNCHANGED <<stateFile, members, held>>

\* File::create(&self.path): the file is there and empty, or the expect
\* panics and the file is as it was
write_create ==
    /\ wpc = "create"
    /\ \E ok \in BOOLEAN :
          IF ok
          THEN /\ stateFile' = Some(NoBytes)
               /\ wpc' = "write_all"
               /\ lastP' = [lastP EXCEPT !.write.ops = Append(@, "create")]
          ELSE /\ stateFile' = stateFile
               /\ wpc' = "idle"
               /\ lastP' = [lastP EXCEPT !.result = "panic"]
    /\ UNCHANGED <<state, members, held>>

\* file.write_all(&bytes): some of the bytes reach the file, then all of
\* them; or the expect panics
write_all ==
    /\ wpc = "write_all"
    /\ \E doc \in Written(lastP.before, state) :
          \/ /\ stateFile' = Some(SomeBytes(doc))
             /\ UNCHANGED <<wpc, lastP>>
          \/ /\ stateFile' = Some(AllBytes(doc))
             /\ wpc' = "idle"
             /\ lastP' = [lastP EXCEPT !.result = "Ok",
                                       !.write.ops = Append(@, "write_all")]
          \/ /\ stateFile' = stateFile
             /\ wpc' = "idle"
             /\ lastP' = [lastP EXCEPT !.result = "panic"]
    /\ UNCHANGED <<state, members, held>>

\* the process stops, wherever write stands, and starts again:
\* Persistent::open reads the file, and a file that is no document ends the
\* start
restart ==
    /\ wpc # "failed to deserialize"
    /\ LET inner == Open(stateFile)
       IN IF inner = None
          THEN /\ wpc' = "failed to deserialize"
               /\ state' = DefaultState
               /\ lastP' = RecordP("open", 0, 0, 0, "panic", {}, NoWrite)
          ELSE /\ wpc' = "idle"
               /\ state' = inner[1]
               /\ lastP' = RecordP("open", 0, 0, 0, "Ok", {}, NoWrite)
    /\ UNCHANGED <<stateFile, members, held>>

(***************************************************************************)
(* The handlers as tasks that share the RwLock of ctx.data, one step per   *)
(* await                                                                   *)
(***************************************************************************)
TaskIds ==
    {"add_role", "remove_role", "guild_member_update", "guild_member_addition",
     "add_reaction", "delete_message", "update_message"}

Unlocked == [writer |-> "none", readers |-> {}]

NoLocal ==
    [guild |-> 0, user |-> 0, role |-> 0, roles |-> << >>, message |-> 0,
     who |-> Me, emoji |-> NoEmoji, content |-> None]

\* ctx.data.read().await and ctx.data.write().await return
CanRead == lock.writer = "none"
CanWrite == lock.writer = "none" /\ lock.readers = {}
ReadLockedNot(t) == lock

ReadLocked(t) == [lock EXCEPT !.readers = @ \cup {t}]
WriteLocked(t) == [lock EXCEPT !.writer = t]
\* the guard `data` is dropped: at the end of the function or of its block
Dropped(t) ==
    [writer |-> IF lock.writer = t THEN "none" ELSE lock.writer,
     readers |-> lock.readers \ {t}]

Holds(t) == lock.writer = t \/ t \in lock.readers

\* the awaits of a platform call or of the delay
PlatformAwaits ==
    {"users_with_role", "member_permissions", "sleep", "add_roles", "member",
     "member.add_role", "reaction.delete"}

Goto(t, at) == pc' = [pc EXCEPT ![t] = at]
Finish(t) == /\ pc' = [pc EXCEPT ![t] = "idle"]
             /\ local' = [local EXCEPT ![t] = NoLocal]

\* add_role: `let mut data = ctx.data.write().await;` comes first
t_add_role_lock(guild, role) ==
    LET t == "add_role"
    IN /\ pc[t] = "idle"
       /\ CanWrite
       /\ lock' = WriteLocked(t)
       /\ Goto(t, "users_with_role")
       /\ local' = [local EXCEPT ![t] = [NoLocal EXCEPT !.guild = guild, !.role = role]]
       /\ UNCHANGED <<state, stateFile, wpc, members, held, lastP>>

\* users_with_role(..).await? returns and, on Ok, state.write runs; the guard
\* is dropped when the function returns
t_add_role_scanned ==
    LET t == "add_role"
    IN /\ pc[t] = "users_with_role"
       /\ \E scanOk \in BOOLEAN :
             IF ~scanOk
             THEN UNCHANGED <<state, stateFile>>
             ELSE LET inner == AddRoleClosure(state, local[t].guild, local[t].role,
                                              users_with_role(local[t].role))
                  IN /\ state' = inner
                     /\ stateFile' \in WriteResults(state, inner, stateFile)
       /\ lock' = Dropped(t)
       /\ Finish(t)
       /\ UNCHANGED <<wpc, members, held, lastP>>

\* remove_role: takes the write lock, runs state.write and returns
t_remove_role(guild, role) ==
    LET t == "remove_role"
        inner == RemoveRoleClosure(state, guild, role)
    IN /\ pc[t] = "idle"
       /\ CanWrite
       /\ state' = inner
       /\ stateFile' \in WriteResults(state, inner, stateFile)
       /\ UNCHANGED <<lock, pc, local, wpc, members, held, lastP>>

\* the roles of a member change and the member-update event arrives
t_member_update_event(guild, user, roles) ==
    LET t == "guild_member_update"
    IN /\ pc[t] = "idle"
       /\ user \in members
       /\ held' = [held EXCEPT ![user] = Range(roles)]
       /\ Goto(t, "has_guild")
       /\ local' = [local EXCEPT ![t] =
                       [NoLocal EXCEPT !.guild = guild, !.user = user, !.roles = roles]]
       /\ UNCHANGED <<lock, state, stateFile, wpc, members, lastP>>

\* has_guild: takes the read lock, looks and drops it
t_member_update_has_guild ==
    LET t == "guild_member_update"
    IN /\ pc[t] = "has_guild"
       /\ CanRead
       /\ IF has_guild(local[t].guild)
          THEN Goto(t, "write") /\ UNCHANGED local
          ELSE Finish(t)
       /\ UNCHANGED <<lock, state, stateFile, wpc, members, held, lastP>>

\* guild_member_update: takes the write lock, runs state.write and returns
t_member_update_write ==
    LET t == "guild_member_update"
        inner == MemberUpdateClosure(state, local[t].guild, local[t].user,
                                     local[t].roles)
    IN /\ pc[t] = "write"
       /\ CanWrite
       /\ state' = inner
       /\ stateFile' \in WriteResults(state, inner, stateFile)
       /\ Finish(t)
       /\ UNCHANGED <<lock, wpc, members, held, lastP>>

\* a member leaves the guild
t_member_leaves(user) ==
    /\ user \in members
    /\ members' = members \ {user}
    /\ held' = [held EXCEPT ![user] = {}]
    /\ UNCHANGED <<lock, pc, local, state, stateFile, wpc, lastP>>

\* a user joins and the member-joined event arrives
t_member_addition_event(guild, user) ==
    LET t == "guild_member_addition"
    IN /\ pc[t] = "idle"
       /\ user \notin members
       /\ members' = members \cup {user}
       /\ Goto(t, "read")
       /\ local' = [local EXCEPT ![t] = [NoLocal EXCEPT !.guild = guild, !.user = user]]
       /\ UNCHANGED <<lock, state, stateFile, wpc, held, lastP>>

\* guild_member_addition: `let data = ctx.data.read().await;` and the clone of
\* the snapshot; with no roles the function returns and drops the guard
t_member_addition_read ==
    LET t == "guild_member_addition"
        roles == Snapshot(state, local[t].guild, local[t].user)
    IN /\ pc[t] = "read"
       /\ CanRead
       /\ IF roles = << >>
          THEN /\ Finish(t)
               /\ UNCHANGED lock
          ELSE /\ lock' = ReadLocked(t)
               /\ Goto(t, "member_permissions")
               /\ local' = [local EXCEPT ![t].roles = roles]
       /\ UNCHANGED <<state, stateFile, wpc, members, held, lastP>>

\* member_permissions(..).await returns
t_member_addition_permissions ==
    LET t == "guild_member_addition"
    IN /\ pc[t] = "member_permissions"
       /\ \E manage_roles \in BOOLEAN :
             IF manage_roles
             THEN Goto(t, "sleep") /\ UNCHANGED <<lock, local>>
             ELSE Finish(t) /\ lock' = Dropped(t)
       /\ UNCHANGED <<state, stateFile, wpc, members, held, lastP>>

\* tokio::time::sleep(..).await returns
t_member_addition_slept ==
    LET t == "guild_member_addition"
    IN /\ pc[t] = "sleep"
       /\ Goto(t, "add_roles")
       /\ UNCHANGED <<lock, local, state, stateFile, wpc, members, held, lastP>>

\* member.add_roles(&ctx, &roles).await returns; it cannot succeed for a user
\* who left again
t_member_addition_granted ==
    LET t == "guild_member_addition"
        user == local[t].user
    IN /\ pc[t] = "add_roles"
       /\ \E ok \in {FALSE} \cup {user \in members} :
             held' = [held EXCEPT ![user] =
                         IF ok THEN @ \cup Range(local[t].roles) ELSE @]
       /\ lock' = Dropped(t)
       /\ Finish(t)
       /\ UNCHANGED <<state, stateFile, wpc, members, lastP>>

\* a user reacts to a message and the reaction-added event arrives
t_add_reaction_event(message, user, pe) ==
    LET t == "add_reaction"
    IN /\ pc[t] = "idle"
       /\ content[message] # None
       /\ user # Me
       /\ <<user, pe>> \notin reactions[message]
       /\ reactions' = [reactions EXCEPT ![message] = @ \cup {<<user, pe>>}]
       /\ Goto(t, "read")
       /\ local' = [local EXCEPT ![t] =
                       [NoLocal EXCEPT !.message = message, !.who = user, !.emoji = pe]]
       /\ UNCHANGED <<lock, memberRoles>>

\* add_reaction: `let data = ctx.data.read().await;` and the lookup of the
\* group and of the role
t_add_reaction_read ==
    LET t == "add_reaction"
        group == get_group(messages, local[t].message)
        role == IF group = None THEN None
                ELSE get_role(group[1], EmojiFrom(local[t].emoji))
    IN /\ pc[t] = "read"
       /\ CanRead
       /\ IF group = None
          THEN Finish(t) /\ UNCHANGED lock
          ELSE /\ lock' = ReadLocked(t)
               /\ IF role # None
                  THEN /\ Goto(t, "member")
                       /\ local' = [local EXCEPT ![t].role = role[1]]
                  ELSE Goto(t, "reaction.delete") /\ UNCHANGED local
       /\ UNCHANGED <<reactions, memberRoles>>

\* guild.member(&ctx, user).await? returns
t_add_reaction_member ==
    LET t == "add_reaction"
    IN /\ pc[t] = "member"
       /\ \E fetchOk \in BOOLEAN :
             IF fetchOk /\ GrantsTo(local[t].who)
             THEN Goto(t, "member.add_role") /\ UNCHANGED <<lock, local>>
             ELSE Finish(t) /\ lock' = Dropped(t)
       /\ UNCHANGED <<reactions, memberRoles>>

\* member.add_role(&ctx.http, role).await? returns
t_add_reaction_granted ==
    LET t == "add_reaction"
    IN /\ pc[t] = "member.add_role"
       /\ \E ok \in BOOLEAN :
             memberRoles' = [memberRoles EXCEPT ![local[t].who] =
                                IF ok THEN @ \cup {local[t].role} ELSE @]
       /\ lock' = Dropped(t)
       /\ Finish(t)
       /\ UNCHANGED reactions

\* reaction.delete(&ctx.http).await? returns
t_add_reaction_deleted ==
    LET t == "add_reaction"
    IN /\ pc[t] = "reaction.delete"
       /\ \E ok \in BOOLEAN :
             reactions' = [reactions EXCEPT ![local[t].message] =
                              IF ok THEN @ \ {<<local[t].who, local[t].emoji>>} ELSE @]
       /\ lock' = Dropped(t)
       /\ Finish(t)
       /\ UNCHANGED memberRoles

\* the message is deleted and the message-deleted event arrives
t_delete_message_event(message) ==
    LET t == "delete_message"
    IN /\ pc[t] = "idle"
       /\ content[message] # None
       /\ content' = [content EXCEPT ![message] = None]
       /\ reactions' = [reactions EXCEPT ![message] = {}]
       /\ Goto(t, "is_message_registered")
       /\ local' = [local EXCEPT ![t] = [NoLocal EXCEPT !.message = message]]
       /\ UNCHANGED <<lock, messages, regFile, last>>

\* is_message_registered, for either handler: takes the read lock, looks and
\* drops it
t_is_message_registered(t) ==
    /\ pc[t] = "is_message_registered"
    /\ CanRead
    /\ IF contains_group(messages, local[t].message)
       THEN Goto(t, "write") /\ UNCHANGED local
       ELSE Finish(t)
    /\ UNCHANGED <<lock, messages, regFile, content, reactions, last>>

\* delete_message: takes the write lock, runs messages.write and returns
t_delete_message_write ==
    LET t == "delete_message"
        after == remove_group(messages, local[t].message)
    IN /\ pc[t] = "write"
       /\ CanWrite
       /\ messages' = after
       /\ regFile' = MainWriteFile(after)
       /\ last' = Record("delete_message", local[t].message, Me, NoEmoji, {},
                         [called |-> TRUE, same |-> after = messages,
                          ops |-> MainWriteFileOps], FALSE,
                         contains_group(messages, local[t].message))
       /\ Finish(t)
       /\ UNCHANGED <<lock, content, reactions>>

\* the message is edited and the message-update event arrives with the new
\* content
t_update_message_event(message, new) ==
    LET t == "update_message"
    IN /\ pc[t] = "idle"
       /\ content[message] # None
       /\ content' = [content EXCEPT ![message] = Some(new)]
       /\ Goto(t, "is_message_registered")
       /\ local' = [local EXCEPT ![t] =
                       [NoLocal EXCEPT !.message = message, !.content = Some(new)]]
       /\ UNCHANGED <<lock, messages, regFile, reactions, last>>

\* update_message: takes the write lock in its block, runs messages.write and
\* drops the lock
t_update_message_write ==
    LET t == "update_message"
        after == UpdateGroup(messages, local[t].message, local[t].content[1])
    IN /\ pc[t] = "write"
       /\ CanWrite
       /\ messages' = after
       /\ regFile' = MainWriteFile(after)
       /\ last' = Record("update_message", local[t].message, Me, NoEmoji, {},
                         [called |-> TRUE, same |-> after = messages,
                          ops |-> MainWriteFileOps], FALSE,
                         contains_group(messages, local[t].message))
       /\ Goto(t, "apply_group_reactions")
       /\ UNCHANGED <<lock, local, content, reactions>>

\* apply_group_reactions: takes the read lock and looks the group up; with no
\* group it returns
t_update_message_reconcile ==
    LET t == "update_message"
    IN /\ pc[t] = "apply_group_reactions"
       /\ CanRead
       /\ IF get_group(messages, local[t].message) = None
          THEN Finish(t) /\ UNCHANGED lock
          ELSE /\ lock' = ReadLocked(t)
               /\ Goto(t, "message")
               /\ UNCHANGED local
       /\ UNCHANGED <<messages, regFile, content, reactions, last>>

\* channel.message(..).await returns, with an error for a message that is
\* gone, and the reaction calls are made; the guard is dropped at the end
t_update_message_reconciled ==
    LET t == "update_message"
        message == local[t].message
    IN /\ pc[t] = "message"
       /\ \E rec \in {r \in Reconciliations(messages, message) :
                         r.ran => content[message] # None} :
             reactions' = [reactions EXCEPT ![message] = rec.reactions]
       /\ lock' = Dropped(t)
       /\ Finish(t)
       /\ UNCHANGED <<messages, regFile, content, last>>

(***************************************************************************)
(* The specifications                                                      *)
(***************************************************************************)
RunParseGroup ==
    /\ parsedGroup = None
    /\ parsedGroup' = Some(parse_group(text))
    /\ UNCHANGED <<text, parsedSelector, reactVars, rolesVars, taskVars>>

RunSelectorParse ==
    /\ parsedSelector = None
    /\ parsedSelector' = Some(SelectorParse(text))
    /\ UNCHANGED <<text, parsedGroup, reactVars, rolesVars, taskVars>>

\* the parser on every sample text
InitParse ==
    /\ text \in SampleTexts
    /\ parsedGroup = None
    /\ parsedSelector = None
    /\ messages = EmptyMap
    /\ regFile = None
    /\ content = [m \in MessageIds |-> None]
    /\ reactions = [m \in MessageIds |-> {}]
    /\ memberRoles = [u \in Users |-> {}]
    /\ last = NoEvent
    /\ state = DefaultState
    /\ stateFile = None
    /\ wpc = "idle"
    /\ members = {}
    /\ held = [u \in UserIds |-> {}]
    /\ lastP = NoOperation
    /\ lock = Unlocked
    /\ pc = [t \in TaskIds |-> "idle"]
    /\ local = [t \in TaskIds |-> NoLocal]

NextParse == RunParseGroup \/ RunSelectorParse

SpecParse == InitParse /\ [][NextParse]_vars

AddReaction ==
    /\ \E m \in MessageIds, u \in Users, pe \in PlatformEmoji : add_reaction(m, u, pe)
    /\ UNCHANGED <<parseVars, rolesVars, taskVars>>

RemoveReaction ==
    /\ \E m \in MessageIds, u \in Users, pe \in PlatformEmoji : remove_reaction(m, u, pe)
    /\ UNCHANGED <<parseVars, rolesVars, taskVars>>

DeleteMessage ==
    /\ \E m \in MessageIds : delete_message(m)
    /\ UNCHANGED <<parseVars, rolesVars, taskVars>>

UpdateMessage ==
    /\ \E m \in MessageIds, new \in {None} \cup {Some(t) : t \in MessageTexts} :
          update_message(m, new)
    /\ UNCHANGED <<parseVars, rolesVars, taskVars>>

TrackReactions ==
    /\ \E m \in MessageIds : track_reactions(m)
    /\ UNCHANGED <<parseVars, rolesVars, taskVars>>

\* Persistent::open("reaction_roles.json") with no file: Messages::default();
\* one message, with some text and no reaction yet
InitReact ==
    /\ text = << >>
    /\ parsedGroup = None
    /\ parsedSelector = None
    /\ messages = EmptyMap
    /\ regFile = None
    /\ content \in {c \in [MessageIds -> {None} \cup {Some(t) : t \in MessageTexts}] :
                      c[1] # None /\ c[2] = None}
    /\ reactions = [m \in MessageIds |-> {}]
    /\ memberRoles = [u \in Users |-> {}]
    /\ last = NoEvent
    /\ state = DefaultState
    /\ stateFile = None
    /\ wpc = "idle"
    /\ members = {}
    /\ held = [u \in UserIds |-> {}]
    /\ lastP = NoOperation
    /\ lock = Unlocked
    /\ pc = [t \in TaskIds |-> "idle"]
    /\ local = [t \in TaskIds |-> NoLocal]

NextReact ==
    AddReaction \/ RemoveReaction \/ DeleteMessage \/ UpdateMessage \/ TrackReactions

SpecReact == InitReact /\ [][NextReact]_vars

\* the registry over two messages: no file, Messages::default(), and two
\* messages with some text that nobody reacts to but the bot
InitRegistry ==
    /\ text = << >>
    /\ parsedGroup = None
    /\ parsedSelector = None
    /\ messages = EmptyMap
    /\ regFile = None
    /\ content \in [MessageIds -> {Some(t) : t \in MessageTexts}]
    /\ reactions = [m \in MessageIds |-> {}]
    /\ memberRoles = [u \in Users |-> {}]
    /\ last = NoEvent
    /\ state = DefaultState
    /\ stateFile = None
    /\ wpc = "idle"
    /\ members = {}
    /\ held = [u \in UserIds |-> {}]
    /\ lastP = NoOperation
    /\ lock = Unlocked
    /\ pc = [t \in TaskIds |-> "idle"]
    /\ local = [t \in TaskIds |-> NoLocal]

EditUnseen ==
    /\ \E m \in MessageIds, new \in MessageTexts : edit_unseen(m, new)
    /\ UNCHANGED <<parseVars, rolesVars, taskVars>>

NextRegistry == DeleteMessage \/ UpdateMessage \/ TrackReactions

\* one message that is tracked, edited with and without the bot seeing it,
\* and deleted
NextTrack == TrackReactions \/ EditUnseen \/ UpdateMessage \/ DeleteMessage

SpecTrack == InitReact /\ [][NextTrack]_vars

SpecRegistry == InitRegistry /\ [][NextRegistry]_vars

AddRole ==
    /\ \E g \in {None} \cup {Some(x) : x \in GuildIds}, r \in RoleIds : add_role(g, r)
    /\ UNCHANGED <<parseVars, reactVars, taskVars>>

RemoveRole ==
    /\ \E g \in {None} \cup {Some(x) : x \in GuildIds}, r \in RoleIds : remove_role(g, r)
    /\ UNCHANGED <<parseVars, reactVars, taskVars>>

GuildMemberUpdate ==
    /\ \E g \in GuildIds, u \in UserIds, rs \in UNION {Orders(x) : x \in SUBSET RoleIds} :
          guild_member_update(g, u, rs)
    /\ UNCHANGED <<parseVars, reactVars, taskVars>>

MemberLeaves ==
    /\ \E g \in GuildIds, u \in UserIds : member_leaves(g, u)
    /\ UNCHANGED <<parseVars, reactVars, taskVars>>

GuildMemberAddition ==
    /\ \E g \in GuildIds, u \in UserIds : guild_member_addition(g, u)
    /\ UNCHANGED <<parseVars, reactVars, taskVars>>

\* Persistent::open with no state file: State::default(); nobody has joined
InitRoles ==
    /\ text = << >>
    /\ parsedGroup = None
    /\ parsedSelector = None
    /\ messages = EmptyMap
    /\ regFile = None
    /\ content = [m \in MessageIds |-> None]
    /\ reactions = [m \in MessageIds |-> {}]
    /\ memberRoles = [u \in Users |-> {}]
    /\ last = NoEvent
    /\ state = DefaultState
    /\ stateFile = None
    /\ wpc = "idle"
    /\ members = {}
    /\ held = [u \in UserIds |-> {}]
    /\ lastP = NoOperation
    /\ lock = Unlocked
    /\ pc = [t \in TaskIds |-> "idle"]
    /\ local = [t \in TaskIds |-> NoLocal]

NextRoles ==
    AddRole \/ RemoveRole \/ GuildMemberUpdate \/ MemberLeaves \/ GuildMemberAddition

SpecRoles == InitRoles /\ [][NextRoles]_vars

WriteBegin == write_begin /\ UNCHANGED <<parseVars, reactVars, taskVars>>
WriteCreate == write_create /\ UNCHANGED <<parseVars, reactVars, taskVars>>
WriteAll == write_all /\ UNCHANGED <<parseVars, reactVars, taskVars>>
Restart == restart /\ UNCHANGED <<parseVars, reactVars, taskVars>>

NextStore == WriteBegin \/ WriteCreate \/ WriteAll \/ Restart

SpecStore == InitRoles /\ [][NextStore]_vars

\* the users whose events the tasks handle
TaskUsers == {1}
TaskReactors == {"alice"}

TaskAddRoleLock ==
    /\ \E g \in GuildIds, r \in RoleIds : t_add_role_lock(g, r)
    /\ UNCHANGED <<parseVars, reactVars>>

TaskAddRoleScanned == t_add_role_scanned /\ UNCHANGED <<parseVars, reactVars>>

TaskRemoveRole ==
    /\ \E g \in GuildIds, r \in RoleIds : t_remove_role(g, r)
    /\ UNCHANGED <<parseVars, reactVars>>

TaskMemberUpdateEvent ==
    /\ \E g \in GuildIds, u \in TaskUsers, rs \in UNION {Orders(x) : x \in SUBSET RoleIds} :
          t_member_update_event(g, u, rs)
    /\ UNCHANGED <<parseVars, reactVars>>

TaskMemberUpdateHasGuild == t_member_update_has_guild /\ UNCHANGED <<parseVars, reactVars>>

TaskMemberUpdateWrite == t_member_update_write /\ UNCHANGED <<parseVars, reactVars>>

TaskMemberLeaves ==
    /\ \E u \in TaskUsers : t_member_leaves(u)
    /\ UNCHANGED <<parseVars, reactVars>>

TaskMemberAdditionEvent ==
    /\ \E g \in GuildIds, u \in TaskUsers : t_member_addition_event(g, u)
    /\ UNCHANGED <<parseVars, reactVars>>

TaskMemberAdditionRead == t_member_addition_read /\ UNCHANGED <<parseVars, reactVars>>

TaskMemberAdditionPermissions ==
    t_member_addition_permissions /\ UNCHANGED <<parseVars, reactVars>>

TaskMemberAdditionSlept == t_member_addition_slept /\ UNCHANGED <<parseVars, reactVars>>

TaskMemberAdditionGranted ==
    t_member_addition_granted /\ UNCHANGED <<parseVars, reactVars>>

TaskAddReactionEvent ==
    /\ \E m \in MessageIds, u \in TaskReactors, pe \in PlatformEmoji : t_add_reaction_event(m, u, pe)
    /\ UNCHANGED <<parseVars, rolesVars, messages, regFile, content, last>>

TaskAddReactionRead ==
    t_add_reaction_read /\ UNCHANGED <<parseVars, rolesVars, messages, regFile, content, last>>

TaskAddReactionMember ==
    t_add_reaction_member /\ UNCHANGED <<parseVars, rolesVars, messages, regFile, content, last>>

TaskAddReactionGranted ==
    t_add_reaction_granted /\ UNCHANGED <<parseVars, rolesVars, messages, regFile, content, last>>

TaskAddReactionDeleted ==
    t_add_reaction_deleted /\ UNCHANGED <<parseVars, rolesVars, messages, regFile, content, last>>

\* the process after the track command registered message 1, whose text is
\* "<@&2> R", and the reconciler put the bot's reaction on it; no state file
\* of persisted roles yet, nobody in the guild
InitTasks ==
    /\ text = << >>
    /\ parsedGroup = None
    /\ parsedSelector = None
    /\ messages = TrackGroup(EmptyMap, 1, TextOther)
    /\ regFile = MainWriteFile(TrackGroup(EmptyMap, 1, TextOther))
    /\ content = [m \in MessageIds |-> IF m = 1 THEN Some(TextOther) ELSE None]
    /\ reactions = [m \in MessageIds |-> IF m = 1 THEN {<<Me, Unicode(<<"R">>)>>} ELSE {}]
    /\ memberRoles = [u \in Users |-> {}]
    /\ last = NoEvent
    /\ state = DefaultState
    /\ stateFile = None
    /\ wpc = "idle"
    /\ members = {}
    /\ held = [u \in TaskUsers |-> {}]
    /\ lastP = NoOperation
    /\ lock = Unlocked
    /\ pc = [t \in TaskIds |-> "idle"]
    /\ local = [t \in TaskIds |-> NoLocal]

NextTasks ==
    \/ TaskAddRoleLock
    \/ TaskAddRoleScanned
    \/ TaskRemoveRole
    \/ TaskMemberUpdateEvent
    \/ TaskMemberUpdateHasGuild
    \/ TaskMemberUpdateWrite
    \/ TaskMemberLeaves
    \/ TaskMemberAdditionEvent
    \/ TaskMemberAdditionRead
    \/ TaskMemberAdditionPermissions
    \/ TaskMemberAdditionSlept
    \/ TaskMemberAdditionGranted
    \/ TaskAddReactionEvent
    \/ TaskAddReactionRead
    \/ TaskAddReactionMember
    \/ TaskAddReactionGranted
    \/ TaskAddReactionDeleted

SpecTasks == InitTasks /\ [][NextTasks]_vars

TaskDeleteMessageEvent ==
    /\ \E m \in MessageIds : t_delete_message_event(m)
    /\ UNCHANGED <<parseVars, rolesVars, memberRoles>>

TaskDeleteMessageRegistered ==
    /\ t_is_message_registered("delete_message")
    /\ UNCHANGED <<parseVars, rolesVars, memberRoles>>

TaskDeleteMessageWrite ==
    t_delete_message_write /\ UNCHANGED <<parseVars, rolesVars, memberRoles>>

TaskUpdateMessageEvent ==
    /\ \E m \in MessageIds, new \in MessageTexts : t_update_message_event(m, new)
    /\ UNCHANGED <<parseVars, rolesVars, memberRoles>>

TaskUpdateMessageRegistered ==
    /\ t_is_message_registered("update_message")
    /\ UNCHANGED <<parseVars, rolesVars, memberRoles>>

TaskUpdateMessageWrite ==
    t_update_message_write /\ UNCHANGED <<parseVars, rolesVars, memberRoles>>

TaskUpdateMessageReconcile ==
    t_update_message_reconcile /\ UNCHANGED <<parseVars, rolesVars, memberRoles>>

TaskUpdateMessageReconciled ==
    t_update_message_reconciled /\ UNCHANGED <<parseVars, rolesVars, memberRoles>>

\* the process after the track command registered message 1, whose text is
\* "<@&2> R", and the reconciler put the bot's reaction on it; message 2 is
\* there and is not registered
InitRace ==
    /\ text = << >>
    /\ parsedGroup = None
    /\ parsedSelector = None
    /\ messages = TrackGroup(EmptyMap, 1, TextOther)
    /\ regFile = MainWriteFile(TrackGroup(EmptyMap, 1, TextOther))
    /\ content = [m \in MessageIds |-> IF m = 1 THEN Some(TextOther) ELSE Some(TextBoth)]
    /\ reactions = [m \in MessageIds |-> IF m = 1 THEN {<<Me, Unicode(<<"R">>)>>} ELSE {}]
    /\ memberRoles = [u \in Users |-> {}]
    /\ last = NoEvent
    /\ state = DefaultState
    /\ stateFile = None
    /\ wpc = "idle"
    /\ members = {}
    /\ held = [u \in UserIds |-> {}]
    /\ lastP = NoOperation
    /\ lock = Unlocked
    /\ pc = [t \in TaskIds |-> "idle"]
    /\ local = [t \in TaskIds |-> NoLocal]

NextRace ==
    \/ TaskDeleteMessageEvent
    \/ TaskDeleteMessageRegistered
    \/ TaskDeleteMessageWrite
    \/ TaskUpdateMessageEvent
    \/ TaskUpdateMessageRegistered
    \/ TaskUpdateMessageWrite
    \/ TaskUpdateMessageReconcile
    \/ TaskUpdateMessageReconciled

SpecRace == InitRace /\ [][NextRace]_vars

(***************************************************************************)
(* Properties of the reaction handlers                                     *)
(***************************************************************************)
AllOk(calls) == \A c \in calls : c.ok
CallsOf(api) == {c \in last.calls : c.api = api}

\* the emoji of the platform the keys of a message's group denote
KeyEmoji(message) ==
    IF message \in DOMAIN messages
    THEN UNION {Resolve(EmojiInto(k)) : k \in DOMAIN messages[message]}
    ELSE {}

\* the event's emoji is a key of the group of the event's message
LastMapped ==
    /\ last.message \in DOMAIN messages
    /\ EmojiFrom(last.emoji) \in DOMAIN messages[last.message]

LastRole == messages[last.message][EmojiFrom(last.emoji)]

\* C1: a write whose closure leaves the value as it was performs no file
\* operation; a file is created and written only when the value changed.
C1_WriteSuppression ==
    (last.write.called /\ last.write.same) => last.write.ops = << >>

\* C4: after the reconciler ran with every platform call succeeding, the emoji
\* the bot itself has reacted with on the message are exactly the emoji the
\* keys of the message's selector denote.
C4_ReconcilerConvergence ==
    (last.reconciled /\ AllOk(last.calls))
        => OwnReactions(last.message) = KeyEmoji(last.message)

\* a reconciliation with every call succeeding that had a reaction of the bot
\* to take away, a key to add and a reaction of somebody else on the message
C4_Witness ==
    /\ last.reconciled
    /\ AllOk(last.calls)
    /\ last.ownBefore \ KeyEmoji(last.message) # {}
    /\ KeyEmoji(last.message) \ last.ownBefore # {}
    /\ \E r \in reactions[last.message] : r[1] # Me
    /\ OwnReactions(last.message) = KeyEmoji(last.message)

\* C5: the reconciler removes only reactions of the bot whose emoji is no key
\* of the selector and adds only keys not yet present on the message; so when
\* the bot's reactions already equal the keys it makes no delete_reaction and
\* no react call.
C5_ReconcilerIdempotence ==
    last.reconciled =>
        /\ \A c \in CallsOf("delete_reaction") : c.emoji \notin KeyEmoji(last.message)
        /\ \A c \in CallsOf("react") : Resolve(c.emoji) \cap last.seenBefore = {}
        /\ last.ownBefore = KeyEmoji(last.message)
              => CallsOf("delete_reaction") \cup CallsOf("react") = {}

\* C7: a reaction-added event makes no platform call when its message has no
\* registry entry; when its emoji is a key with role r the member is fetched,
\* and a fetched member is given exactly r if it is no bot and nothing if it
\* is a bot.
C7_ReactionAddMapped ==
    last.op = "add_reaction" =>
        /\ ~last.registered => last.calls = {}
        /\ CallsOf("add_role") # {} => LastMapped
        /\ LastMapped =>
              /\ \E ok \in BOOLEAN :
                    Call("member", last.user, 0, NoEmoji, ok) \in last.calls
              /\ CallsOf("reaction.delete") = {}
              /\ (Call("member", last.user, 0, NoEmoji, TRUE) \in last.calls
                     /\ last.user \notin Bots)
                    => \E ok \in BOOLEAN :
                          /\ CallsOf("add_role")
                                = {Call("add_role", last.user, LastRole, NoEmoji, ok)}
                          /\ memberRoles[last.user]
                                = last.rolesBefore \cup (IF ok THEN {LastRole} ELSE {})
              /\ last.user \in Bots
                    => /\ CallsOf("add_role") = {}
                       /\ memberRoles[last.user] = last.rolesBefore

\* a person who reacted with a mapped emoji and now holds the role
C7_Witness ==
    /\ last.op = "add_reaction"
    /\ LastMapped
    /\ last.user \notin Bots
    /\ LastRole \notin last.rolesBefore
    /\ Call("add_role", last.user, LastRole, NoEmoji, TRUE) \in last.calls
    /\ LastRole \in memberRoles[last.user]

\* C8: a reaction-added event on a registered message whose emoji is no key of
\* the selector makes one call, the deletion of that reaction, and no grant or
\* revoke; once the deletion went through the reaction is off the message.
C8_UnmappedReactionDeleted ==
    (last.op = "add_reaction" /\ last.registered /\ ~LastMapped) =>
        /\ \E ok \in BOOLEAN :
              /\ last.calls = {Call("reaction.delete", last.user, 0, last.emoji, ok)}
              /\ ok => <<last.user, last.emoji>> \notin reactions[last.message]
        /\ memberRoles[last.user] = last.rolesBefore

\* an unmapped reaction on a registered message whose selector has keys, taken
\* off again
C8_Witness ==
    /\ last.op = "add_reaction"
    /\ last.registered
    /\ ~LastMapped
    /\ DOMAIN messages[last.message] # {}
    /\ Call("reaction.delete", last.user, 0, last.emoji, TRUE) \in last.calls
    /\ <<last.user, last.emoji>> \notin reactions[last.message]

\* C9: a reaction-removed event revokes the mapped role from the acting
\* member (once the member is fetched) iff its message is registered and its
\* emoji is a key; otherwise it makes no platform call and changes no role.
C9_ReactionRemove ==
    last.op = "remove_reaction" =>
        /\ ~LastMapped => (last.calls = {} /\ memberRoles[last.user] = last.rolesBefore)
        /\ LastMapped =>
              /\ \E ok \in BOOLEAN :
                    Call("member", last.user, 0, NoEmoji, ok) \in last.calls
              /\ Call("member", last.user, 0, NoEmoji, TRUE) \in last.calls
                    => \E ok \in BOOLEAN :
                          /\ CallsOf("remove_role")
                                = {Call("remove_role", last.user, LastRole, NoEmoji, ok)}
                          /\ memberRoles[last.user]
                                = last.rolesBefore \ (IF ok THEN {LastRole} ELSE {})
              /\ Call("member", last.user, 0, NoEmoji, FALSE) \in last.calls
                    => (CallsOf("remove_role") = {}
                        /\ memberRoles[last.user] = last.rolesBefore)

\* a person who held a role and lost it by taking the mapped reaction off
C9_Witness ==
    /\ last.op = "remove_reaction"
    /\ LastMapped
    /\ LastRole \in last.rolesBefore
    /\ Call("remove_role", last.user, LastRole, NoEmoji, TRUE) \in last.calls
    /\ LastRole \notin memberRoles[last.user]
    /\ memberRoles[last.user] # {}

(***************************************************************************)
(* Properties of the store                                                 *)
(***************************************************************************)
\* C2: once a write that changed the value has completed, opening the same
\* path yields the value the store holds; opening a path with no file yields
\* the default value.
C2_StoreRoundTrip ==
    /\ (lastP.op = "write" /\ lastP.result = "Ok" /\ ~lastP.write.same)
          => Open(stateFile) = Some(state)
    /\ (lastP.op = "open" /\ lastP.result = "Ok" /\ stateFile = None)
          => state = DefaultState

\* a completed write of a guild with two tracked roles, written in the other
\* order than they were added in, and a snapshot of two roles
C2_Witness ==
    /\ lastP.op = "write"
    /\ lastP.result = "Ok"
    /\ ~lastP.write.same
    /\ stateFile # None
    /\ stateFile[1].bytes = "all"
    /\ \E k \in DOMAIN stateFile[1].json.guilds :
          /\ stateFile[1].json.guilds[k].roles = <<2, 1>>
          /\ \E u \in DOMAIN stateFile[1].json.guilds[k].users :
                Len(stateFile[1].json.guilds[k].users[u]) = 2
    /\ Open(stateFile) = Some(state)

\* C3: whenever the state file is present it holds a whole document, the
\* previous one or the new one, also between the steps of a write.
C3_AtomicWriteBack ==
    stateFile # None => from_slice(stateFile[1]) # None

(***************************************************************************)
(* Properties of the parser                                                *)
(***************************************************************************)
LineHasRole(line) == LineRoles(line) # << >>
LineHasEmoji(line) == LineCustomEmoji(line) # << >> \/ LineUnicodeEmoji(line) # << >>
LineYields(line) == LineHasRole(line) /\ LineHasEmoji(line)

\* the pair the line rule asks of a line that has a role and an emoji
LineRulePair(line) ==
    [emoji |-> IF LineCustomEmoji(line) # << >> THEN LineCustomEmoji(line)[1]
               ELSE LineUnicodeEmoji(line)[1],
     role |-> LineRoles(line)[1]]

\* C6: parse yields an entry for a line iff the line holds a role mention and
\* an emoji; the entry pairs the first role with the first custom emoji if
\* there is one, else with the first unicode emoji, never a digit; a selector
\* holds, per emoji, the pair of the last such line.
C6_SelectorLineRule ==
    LET yielding == SelectSeq(Lines(text), LineYields)
    IN /\ parsedGroup # None =>
             /\ Len(parsedGroup[1]) = Len(yielding)
             /\ \A k \in 1..Len(yielding) :
                   /\ parsedGroup[1][k] = LineRulePair(yielding[k])
                   /\ parsedGroup[1][k].emoji \notin {<<d>> : d \in DigitChars}
       /\ parsedSelector # None =>
             /\ DOMAIN parsedSelector[1]
                   = {LineRulePair(yielding[k]).emoji : k \in 1..Len(yielding)}
             /\ \A e \in DOMAIN parsedSelector[1] :
                   \E k \in 1..Len(yielding) :
                      /\ LineRulePair(yielding[k]) = [emoji |-> e, role |-> parsedSelector[1][e]]
                      /\ \A j \in (k + 1)..Len(yielding) : LineRulePair(yielding[j]).emoji # e

\* a line with a unicode emoji ahead of a custom one and two roles, parsed to
\* the custom emoji and the first role, followed by a line with only a role
C6_Witness ==
    /\ text = Join(<<LineEverything, LineOnlyRole>>)
    /\ parsedGroup = Some(<<[emoji |-> <<"<", ":", "a", ":", "1", ">">>, role |-> 1]>>)
    /\ parsedSelector # None
    /\ DOMAIN parsedSelector[1] = {<<"<", ":", "a", ":", "1", ">">>}

(***************************************************************************)
(* Properties of the persisted roles                                       *)
(***************************************************************************)
\* C10: every role in a user's snapshot list is a tracked role of the guild;
\* after remove_role(r) no list holds r.
C10_TrackedRoleInvariant ==
    /\ \A g \in DOMAIN state.guilds :
          \A u \in DOMAIN state.guilds[g].users :
             Range(state.guilds[g].users[u]) \subseteq state.guilds[g].roles
    /\ (lastP.op = "remove_role" /\ lastP.result = "Ok")
          => \A g \in DOMAIN state.guilds :
                \A u \in DOMAIN state.guilds[g].users :
                   lastP.role \notin Range(state.guilds[g].users[u])

\* remove_role of a role that was in the two-role list of a user who keeps
\* the other role
C10_Witness ==
    /\ lastP.op = "remove_role"
    /\ lastP.result = "Ok"
    /\ lastP.guild \in DOMAIN state.guilds
    /\ \E u \in DOMAIN state.guilds[lastP.guild].users :
          /\ u \in DOMAIN lastP.before.guilds[lastP.guild].users
          /\ Len(lastP.before.guilds[lastP.guild].users[u]) = 2
          /\ lastP.before.guilds[lastP.guild].users[u][1] = lastP.role
          /\ Len(state.guilds[lastP.guild].users[u]) = 1
          /\ lastP.role \notin Range(state.guilds[lastP.guild].users[u])

\* the guild of the last operation as it was before the operation
GuildBefore ==
    IF lastP.guild \in DOMAIN lastP.before.guilds
    THEN lastP.before.guilds[lastP.guild]
    ELSE DefaultGuildState

\* C11: no user key of a guild's users map has an empty role list, in every
\* state add_role, remove_role and member updates lead to; a user whose list
\* remove_role empties is taken out of the map.
C11_NoEmptySnapshot ==
    /\ \A g \in DOMAIN state.guilds :
          \A u \in DOMAIN state.guilds[g].users : state.guilds[g].users[u] # << >>
    /\ (lastP.op = "remove_role" /\ lastP.result = "Ok"
            /\ lastP.guild \in DOMAIN state.guilds /\ lastP.role \in GuildBefore.roles)
          => \A u \in DOMAIN GuildBefore.users :
                Range(GuildBefore.users[u]) \subseteq {lastP.role}
                   => u \notin DOMAIN state.guilds[lastP.guild].users

\* remove_role of the only role in one user's list, that user gone from the
\* map while another user keeps a list
C11_Witness ==
    /\ lastP.op = "remove_role"
    /\ lastP.result = "Ok"
    /\ lastP.guild \in DOMAIN state.guilds
    /\ \E u \in DOMAIN GuildBefore.users :
          /\ GuildBefore.users[u] = <<lastP.role>>
          /\ u \notin DOMAIN state.guilds[lastP.guild].users
    /\ DOMAIN state.guilds[lastP.guild].users # {}

\* C12: when a member joins, add_roles is called iff the user's stored
\* snapshot for the guild is not empty and the bot may manage roles, and then
\* once, with exactly the roles of the snapshot; a user with no snapshot or a
\* guild with no state gets no call.
C12_PersistedRoleRestore ==
    lastP.op = "guild_member_addition" =>
        LET g == lastP.guild
            u == lastP.user
            stored == g \in DOMAIN lastP.before.guilds
                         /\ u \in DOMAIN lastP.before.guilds[g].users
        IN /\ lastP.calls # {} <=> (stored /\ lastP.result # "NoPermission")
           /\ lastP.calls # {} =>
                 \E ok \in BOOLEAN :
                    /\ lastP.calls = {[api |-> "add_roles", user |-> u,
                                       roles |-> lastP.before.guilds[g].users[u],
                                       ok |-> ok]}
                    /\ held[u] = lastP.heldBefore[u]
                          \cup (IF ok THEN Range(lastP.before.guilds[g].users[u]) ELSE {})
           /\ lastP.calls = {} => held = lastP.heldBefore

\* a user who holds no role and has a snapshot of two roles joins and is
\* given both
C12_Witness ==
    /\ lastP.op = "guild_member_addition"
    /\ lastP.guild \in DOMAIN lastP.before.guilds
    /\ lastP.user \in DOMAIN GuildBefore.users
    /\ Len(GuildBefore.users[lastP.user]) = 2
    /\ lastP.heldBefore[lastP.user] = {}
    /\ \E c \in lastP.calls : c.ok /\ c.roles = GuildBefore.users[lastP.user]
    /\ held[lastP.user] = Range(GuildBefore.users[lastP.user])

\* C13: after a member-update event for a user in a guild that has state, the
\* user's snapshot holds exactly the member's current roles that the guild
\* tracks, whatever it held before, and the user has no entry when there are
\* none; tracked roles and other users stay; a guild with no state stays so.
C13_MemberUpdateSnapshot ==
    lastP.op = "guild_member_update" =>
        IF lastP.guild \in DOMAIN lastP.before.guilds
        THEN LET now == state.guilds[lastP.guild]
                 tracked == held[lastP.user] \cap GuildBefore.roles
             IN /\ now.roles = GuildBefore.roles
                /\ DOMAIN now.users \ {lastP.user} = DOMAIN GuildBefore.users \ {lastP.user}
                /\ \A u \in DOMAIN now.users \ {lastP.user} :
                      now.users[u] = GuildBefore.users[u]
                /\ lastP.user \in DOMAIN now.users <=> tracked # {}
                /\ tracked # {} =>
                      /\ Range(now.users[lastP.user]) = tracked
                      /\ Len(now.users[lastP.user]) = Cardinality(tracked)
        ELSE /\ state = lastP.before
             /\ ~lastP.write.called

\* a member whose snapshot held role 1 is seen with role 2 only, both tracked:
\* the snapshot is now role 2 alone, and the other user's list is as before
C13_Witness ==
    /\ lastP.op = "guild_member_update"
    /\ lastP.guild \in DOMAIN lastP.before.guilds
    /\ GuildBefore.roles = {1, 2}
    /\ lastP.user \in DOMAIN GuildBefore.users
    /\ GuildBefore.users[lastP.user] = <<1>>
    /\ held[lastP.user] = {2}
    /\ state.guilds[lastP.guild].users[lastP.user] = <<2>>
    /\ DOMAIN state.guilds[lastP.guild].users # {lastP.user}

\* C14: add_role of a role already tracked leaves the guild's roles and every
\* snapshot as they were; add_role of a new role adds it to roles and appends
\* it to the list of each member the scan found holding it, every other role
\* of every list and every other user staying as before.
C14_AddRoleFrame ==
    (lastP.op = "add_role" /\ lastP.result = "Ok") =>
        LET now == state.guilds[lastP.guild]
            found == {u \in members : lastP.role \in lastP.heldBefore[u]}
            had(u) == IF u \in DOMAIN GuildBefore.users THEN GuildBefore.users[u]
                      ELSE << >>
        IN /\ \A g \in DOMAIN lastP.before.guilds \ {lastP.guild} :
                 g \in DOMAIN state.guilds /\ state.guilds[g] = lastP.before.guilds[g]
           /\ lastP.role \in GuildBefore.roles => now = GuildBefore
           /\ lastP.role \notin GuildBefore.roles =>
                 /\ now.roles = GuildBefore.roles \cup {lastP.role}
                 /\ DOMAIN now.users = DOMAIN GuildBefore.users \cup found
                 /\ \A u \in DOMAIN now.users :
                       now.users[u] = IF u \in found THEN Append(had(u), lastP.role)
                                      ELSE had(u)

\* a new role is tracked: a member holding it who had a list of one role now
\* has two, and a user not holding it keeps the list they had
C14_Witness ==
    /\ lastP.op = "add_role"
    /\ lastP.result = "Ok"
    /\ lastP.role \notin GuildBefore.roles
    /\ \E u, v \in DOMAIN GuildBefore.users :
          /\ u # v
          /\ Len(GuildBefore.users[u]) = 1
          /\ state.guilds[lastP.guild].users[u]
                = Append(GuildBefore.users[u], lastP.role)
          /\ lastP.role \notin lastP.heldBefore[v]
          /\ state.guilds[lastP.guild].users[v] = GuildBefore.users[v]

(***************************************************************************)
(* Properties of the registry                                              *)
(***************************************************************************)
\* Selector::parse of the texts a message can have, tabulated
SelectorOfText == [t \in MessageTexts |-> SelectorParse(t)]

\* C15: the handling of a content edit of a registered message (a step to a
\* state whose last operation is update_message) leaves the message's registry
\* entry equal to the selector parsed from the new content,
\* no pair of the old entry surviving otherwise, with other entries as they
\* were; the store holds it when the reconciler runs, which reacts with the
\* new keys; an edit of an unregistered message creates no entry and changes
\* neither the registry, its file nor any reaction.
C15_EditReplacesSelector ==
    [][last'.op = "update_message" =>
          LET m == last'.message
          IN /\ (m \in DOMAIN messages /\ content'[m] # content[m]) => last'.write.called
             /\ last'.write.called =>
                   /\ m \in DOMAIN messages
                   /\ DOMAIN messages' = DOMAIN messages
                   /\ messages'[m] = SelectorOfText[content'[m][1]]
                   /\ \A k \in DOMAIN messages \ {m} : messages'[k] = messages[k]
                   /\ regFile' = Some(SerializeMessages(messages'))
                   /\ last'.reconciled =>
                         {c.emoji : c \in {x \in last'.calls : x.api = "react"}}
                            = {EmojiInto(k) : k \in DOMAIN SelectorOfText[content'[m][1]]}
             /\ m \notin DOMAIN messages =>
                   /\ messages' = messages
                   /\ regFile' = regFile
                   /\ reactions' = reactions
                   /\ last'.calls = {}
                   /\ ~last'.write.called]_vars

\* an edit replaced a selector of two keys by a selector with one key mapped
\* to another role, the reconciler ran, and the other message is registered
C15_Witness ==
    /\ last.op = "update_message"
    /\ last.write.called
    /\ last.reconciled
    /\ content[last.message] = Some(TextOther)
    /\ last.ownBefore = PlatformEmoji
    /\ messages[last.message] = SelectorOfText[TextOther]
    /\ OwnReactions(last.message) = {Unicode(<<"R">>)}
    /\ DOMAIN messages = MessageIds

\* C16: the handling of a message-deleted event leaves the registry without
\* an entry for the message and with every other entry as it was; for a
\* message that was not registered the handler does not call write, so the
\* registry and its file stay untouched.
C16_MessageDeletion ==
    [][DeleteMessage =>
          LET m == last'.message
          IN /\ m \notin DOMAIN messages'
             /\ DOMAIN messages' = DOMAIN messages \ {m}
             /\ \A k \in DOMAIN messages' : messages'[k] = messages[k]
             /\ m \notin DOMAIN messages =>
                   /\ ~last'.write.called
                   /\ last'.write.ops = << >>
                   /\ messages' = messages
                   /\ regFile' = regFile]_vars

\* a registered message was deleted and the other message keeps its selector,
\* in memory and in the file
C16_Witness ==
    /\ last.op = "delete_message"
    /\ last.registered
    /\ last.message \notin DOMAIN messages
    /\ \E k \in DOMAIN messages : DOMAIN messages[k] # {}
    /\ regFile = Some(SerializeMessages(messages))

\* the last event was a reaction event with a platform call that failed
LastFailed ==
    /\ last.op \in {"add_reaction", "remove_reaction"}
    /\ \E c \in last.calls : ~c.ok

\* C17: a reaction event with a failing member fetch, grant, revoke or
\* reaction deletion ends with the error logged, not with a panic; the failed
\* call is its last call and is made once; the registry, its file and the
\* member's roles are as before; and the event after it is handled as any
\* other (the contracts of the reaction handlers hold for it).
C17_FailuresSwallowed ==
    [][/\ LastFailed' =>
             /\ last'.result = "logged"
             /\ messages' = messages
             /\ regFile' = regFile
             /\ memberRoles' = memberRoles
             /\ Cardinality({c \in last'.calls : ~c.ok}) = 1
             /\ \A c, d \in last'.calls : c.api = d.api => c = d
             /\ Call("member", last'.user, 0, NoEmoji, FALSE) \in last'.calls
                   => Cardinality(last'.calls) = 1
             /\ <<last'.user, last'.emoji>> \in reactions'[last'.message]
                   <=> last'.op = "add_reaction"
       /\ LastFailed =>
             /\ last'.result # "panic"
             /\ C7_ReactionAddMapped'
             /\ C8_UnmappedReactionDeleted'
             /\ C9_ReactionRemove']_vars

\* a grant failed after the member was fetched: the reaction stays on the
\* message and the person is without the role
C17_Witness ==
    /\ last.op = "add_reaction"
    /\ LastMapped
    /\ Call("member", last.user, 0, NoEmoji, TRUE) \in last.calls
    /\ Call("add_role", last.user, LastRole, NoEmoji, FALSE) \in last.calls
    /\ last.result = "logged"
    /\ LastRole \notin memberRoles[last.user]
    /\ <<last.user, last.emoji>> \in reactions[last.message]

\* the identity of two reaction payloads: the same unicode sequence, or the
\* same custom id whatever the names
SameIdentity(a, b) ==
    /\ a.kind = b.kind
    /\ a.kind = "Unicode" => a.uni = b.uni
    /\ a.kind = "Custom" => a.id = b.id

\* C18: two Emoji values are equal iff they are the same unicode sequence or
\* custom emoji of the same id, names aside: the Emoji made from a reaction's
\* payload equals a key of the selector exactly when the key denotes the
\* payload's emoji.
C18_EmojiIdentityEquality ==
    (last.op \in {"add_reaction", "remove_reaction"} /\ last.message \in DOMAIN messages)
        => \A k \in DOMAIN messages[last.message] :
              EmojiFrom(last.emoji) = k <=> SameIdentity(last.emoji, EmojiInto(k))

(***************************************************************************)
(* Properties of the handlers as tasks                                     *)
(***************************************************************************)
\* C19: no handler holds the lock of the shared data, for reading or for
\* writing, while it waits for a platform call or for the delay.
C19_NoLockAcrossPlatformIO ==
    \A t \in TaskIds : pc[t] \in PlatformAwaits => ~Holds(t)

\* C20: after the reconciler ran with every platform call succeeding, the
\* emoji visible on the message, whoever placed them, are exactly the emoji
\* the selector's keys denote.
C20_VisibleSetConverges ==
    (last.reconciled /\ AllOk(last.calls))
        => {r[2] : r \in reactions[last.message]} = KeyEmoji(last.message)

\* C21: after the track command for a message has gone through (the message
\* was found and the store written), the message's registry entry is exactly
\* the selector parsed from the message's content, whether or not the message
\* had an entry before.
C21_TrackStoresParsedSelector ==
    (last.op = "track_reactions" /\ last.write.called)
        => /\ last.message \in DOMAIN messages
           /\ messages[last.message] = SelectorOfText[content[last.message][1]]

\* C22: whenever the rejoin handler's add_roles call returns, the roles it
\* was called with are the user's snapshot as the store holds it at that
\* moment, each of them a tracked role, whatever remove_role and
\* member-update handlers arrived during the delay; the member gains no other
\* role by it.
C22_NoStaleCopyOnRejoin ==
    [][(pc["guild_member_addition"] = "add_roles"
            /\ pc'["guild_member_addition"] = "idle")
          => LET l == local["guild_member_addition"]
             IN /\ l.guild \in DOMAIN state.guilds
                /\ l.user \in DOMAIN state.guilds[l.guild].users
                /\ l.roles = state.guilds[l.guild].users[l.user]
                /\ Range(l.roles) \subseteq state.guilds[l.guild].roles
                /\ state' = state
                /\ held'[l.user] \ held[l.user] \subseteq
                      Range(state.guilds[l.guild].users[l.user])]_vars

\* the rejoin handler has granted a snapshot of two roles while a
\* member-update event for the same user, seen with no role, still waits for
\* the write lock: the snapshot is not yet dropped
C22_Witness ==
    /\ pc["guild_member_addition"] = "idle"
    /\ pc["guild_member_update"] = "write"
    /\ local["guild_member_update"].roles = << >>
    /\ local["guild_member_update"].guild \in DOMAIN state.guilds
    /\ LET g == local["guild_member_update"].guild
           u == local["guild_member_update"].user
       IN /\ u \in members
          /\ u \in DOMAIN state.guilds[g].users
          /\ Len(state.guilds[g].users[u]) = 2
          /\ held[u] = Range(state.guilds[g].users[u])

(***************************************************************************)
(* Properties of the delete and edit handlers as tasks                     *)
(***************************************************************************)
\* a handler task is at work on the message
InFlight(t, message) == pc[t] # "idle" /\ local[t].message = message

\* C23: however the message-deleted handler and the content-edit handler of a
\* registered message interleave, once the message is deleted and both
\* handlers are through, the registry has no entry for it; the write of the
\* edit handler never creates an entry.
C23_DeleteEditRace ==
    /\ [](\A m \in MessageIds :
             (content[m] = None /\ ~InFlight("delete_message", m)
                  /\ ~InFlight("update_message", m))
                => m \notin DOMAIN messages)
    /\ [][(pc["update_message"] = "write" /\ pc'["update_message"] # "write")
             => DOMAIN messages' = DOMAIN messages]_vars

\* both handlers are through with a deleted message, the edit handler having
\* written after the delete handler removed the entry, and there is no entry
C23_Witness ==
    /\ last.op = "update_message"
    /\ last.write.called
    /\ ~last.registered
    /\ content[last.message] = None
    /\ pc["delete_message"] = "idle"
    /\ pc["update_message"] = "idle"
    /\ last.message \notin DOMAIN messages
    /\ regFile = Some(SerializeMessages(messages))

(***************************************************************************)
(* Disk and memory                                                         *)
(***************************************************************************)
\* the state file holds the value the store holds: a whole document that
\* deserializes to it, or no file and the default value
Mirrors ==
    IF stateFile = None THEN state = DefaultState
    ELSE from_slice(stateFile[1]) = Some(state)

\* C24: after open and after every write call that returned, suppressed or
\* not, the state file mirrors the in-memory value.
C24_DiskMirrorsMemory ==
    (wpc = "idle" /\ lastP.op \in {"open", "write"} /\ lastP.result = "Ok")
        => Mirrors

====
